---- MODULE Spec2Model ----
(***************************************************************************)
(* A model of uber-earnings: main() of src/main.rs (the paginated fetch    *)
(* loop, the CSV sink, the exit status), the wire types of src/serde.rs    *)
(* and the session lookup of src/lib.rs.                                   *)
(*                                                                         *)
(* Option<T> is modelled as a sequence of length at most one: <<>> is None *)
(* and <<x>> is Some(x).                                                   *)
(*                                                                         *)
(* Library behaviour the source relies on and the model states:            *)
(*  - reqwest's send() returns Ok for every HTTP status; only a failure to *)
(*    get a response at all is an Err (the source never calls              *)
(*    error_for_status).                                                   *)
(*  - serde serializes a field of type Option that is None as JSON null    *)
(*    unless the field carries skip_serializing_if (it does not).          *)
(*  - csv::Writer buffers records and hands them to the destination when   *)
(*    its buffer is full, on flush(), and when it is dropped.              *)
(*  - main returning Err prints the error on stderr and exits with a       *)
(*    failure status; returning Ok(()) exits with the success status.      *)
(*  - writes to the destination itself are assumed to succeed.             *)
(***************************************************************************)
EXTENDS Integers, Sequences, FiniteSets, TLC

VARIABLES
    pc,             \* position in main()
    output,         \* args.output: "file" or "stdout"
    start_date,     \* args.start_date
    end_date,       \* args.end_date
    has_more_data,  \* main.rs:64
    cursor,         \* main.rs:65, Option<String>
    writer,         \* records held in the csv::Writer's buffer
    file,           \* what the output file has received
    stdout,         \* what the standard output stream has received
    stderr,         \* what the standard error stream has received
    pending,        \* activities of the current page not yet written
    requests,       \* serialized bodies of the requests sent so far
    responses,      \* HTTP responses received so far
    session,        \* the session string, Option<String>
    exit            \* "running", "success" or "failure"

vars == <<pc, output, start_date, end_date, has_more_data, cursor, writer,
          file, stdout, stderr, pending, requests, responses,
          session, exit>>

----
\* Bounds of the model

\* the number of requests after which the model stops following the loop
MaxReq == 3

\* the capacity of the csv::Writer's buffer, counted in records
BufCapacity == 2

\* seconds per day and the local zone's offset from UTC, scaled down
SecondsPerDay == 4
LocalOffset == 1

\* the largest number of seconds chrono can represent as an instant, scaled down
MaxSeconds == 11

None == <<>>
Some(x) == <<x>>

----
\* src/serde.rs: request encoding

\* a calendar date (NaiveDate)
Date(y, m, d) == [year |-> y, month |-> m, day |-> d]

DateRanges ==
    { <<Date(2024, 1, 1), Date(2024, 1, 31)>>,
      <<Date(2024, 1, 31), Date(2024, 1, 1)>> }

Pad2(n) == IF n < 10 THEN "0" \o ToString(n) ELSE ToString(n)

\* iso_date_format::serialize, FORMAT = "%Y-%m-%d"
FormatDate(date) ==
    ToString(date.year) \o "-" \o Pad2(date.month) \o "-" \o Pad2(date.day)

\* JSON values: null, a string, or an object (a sequence of <<key, value>>)
JNull == [t |-> "null", v |-> <<>>]
JStr(s) == [t |-> "str", v |-> <<s>>]
JObj(pairs) == [t |-> "obj", v |-> pairs]

\* #[derive(Serialize)] struct PaginationOption { cursor }
SerializePaginationOption(p) == JObj(<< <<"cursor", JStr(p.cursor)>> >>)

\* serde's Serialize for Option<T>: None is null, Some(x) is x
SerializeOption(opt) ==
    IF opt = None THEN JNull ELSE SerializePaginationOption(opt[1])

\* #[derive(Serialize)] #[serde(rename_all = "camelCase")] struct ActivityRequest:
\* every field is emitted, in declaration order
SerializeRequest(req) ==
    JObj(<< <<"startDateIso", JStr(FormatDate(req.start_date_iso))>>,
            <<"endDateIso", JStr(FormatDate(req.end_date_iso))>>,
            <<"paginationOption", SerializeOption(req.pagination_option)>> >>)

----
\* src/serde.rs: response decoding

Cursors == {"c1", "c2"}

\* Activities as they arrive on the wire. recognizedAt is epoch seconds.
Activity(uuid, at, tip, meta) ==
    [uuid |-> uuid, type_ |-> "trip", recognized_at |-> at,
     activity_title |-> "Trip", formatted_total |-> "$12.00",
     routing |-> [webview_url |-> "https://x"],
     breakdown_details |-> tip, trip_meta_data |-> meta]

TripMeta ==
    [formatted_duration |-> "10 min", formatted_distance |-> "2 mi",
     pickup_address |-> "A St", drop_off_address |-> "B St",
     map_url |-> "https://m"]

a1 == Activity("abc", 2, None, None)
a2 == Activity("def", 7, Some([formatted_tip |-> "$1.00"]), Some(TripMeta))
\* an activity whose timestamp is outside the representable range
a3 == Activity("bad", MaxSeconds + 5, None, None)

\* the activities field of SuccessData: absent, or a list
ActivityLists == { None, Some(<<a1, a2>>), Some(<<a2, a3>>) }

\* Response bodies. wellFormed = FALSE is a body that is not JSON of the
\* expected shape (not JSON at all, a required field missing, a value of the
\* wrong type); tag is the value of the status field.
Body(wf, tag, msg, acts, more, next) ==
    [wellFormed |-> wf, tag |-> tag, message |-> msg, activities |-> acts,
     hasMoreData |-> more, nextCursor |-> next]

SuccessBodies ==
    { Body(TRUE, "success", "", acts, more, next) :
        acts \in ActivityLists, more \in BOOLEAN,
        next \in {None} \cup { Some(c) : c \in Cursors } }

FailureBodies == { Body(TRUE, "failure", "quota exceeded", None, FALSE, None) }

OtherBodies ==
    { Body(FALSE, "", "", None, FALSE, None),
      Body(TRUE, "pending", "", None, FALSE, None) }

Bodies == SuccessBodies \cup FailureBodies \cup OtherBodies

\* the bodies that arrive with an error status: an error page that is not
\* JSON, a Failure, and a Success page that asks for more
ErrorStatusBodies ==
    FailureBodies
    \cup { Body(FALSE, "", "", None, FALSE, None),
           Body(TRUE, "success", "", Some(<<a1, a2>>), TRUE, Some("c1")) }

\* what send() returns when it returns Ok: any status, any body
HttpResponses ==
    [status : {200}, body : Bodies] \cup [status : {500}, body : ErrorStatusBodies]

\* utc_timestamp::deserialize: Utc.timestamp_opt(timestamp, 0).single()
TimestampOk(secs) == secs >= -MaxSeconds /\ secs <= MaxSeconds

\* #[derive(Deserialize)] struct Activity
ActivityDecodes(a) == TimestampOk(a.recognized_at)

\* a decoder that leaves the activities to be checked as they are used
Decodes_Lazy(body) ==
    /\ body.wellFormed
    /\ body.tag \in {"failure", "success"}

\* #[derive(Deserialize)] #[serde(tag = "status")] enum ActivityFeedResponse,
\* as res.json() applies it to the body: TRUE when decoding returns Ok
Decodes(body) ==
    /\ body.wellFormed
    /\ body.tag \in {"failure", "success"}
    /\ body.tag = "success" /\ body.activities # None =>
          \A i \in 1..Len(body.activities[1]) :
              ActivityDecodes(body.activities[1][i])

----
\* src/main.rs: the row projection

\* items of an output stream: a CSV record, or a line of text
Record(fields) == [kind |-> "record", data |-> fields]
Line(text) == [kind |-> "line", data |-> <<text>>]

\* main.rs:45-48
Header ==
    Record(<<"UUID", "Type", "Date", "Time", "Title", "Total", "Url", "Tip",
             "Duration", "Distance", "Pickup", "DropOff", "MapUrl">>)

\* recognized_at.with_timezone(&Local).date_naive().to_string(), as a day number
LocalDate(secs) == ToString((secs + LocalOffset) \div SecondsPerDay)

\* recognized_at.with_timezone(&Local).time().to_string(), as seconds of the day
LocalTime(secs) == ToString((secs + LocalOffset) % SecondsPerDay)

\* main.rs:108-111
TipField(activity) ==
    IF activity.breakdown_details = None THEN ""
    ELSE activity.breakdown_details[1].formatted_tip

\* a copy-and-paste slip: the last arm matches on breakdown_details
MetaFields_Mixed(activity) ==
    IF activity.trip_meta_data = None THEN <<"", "", "", "", "">>
    ELSE LET meta == activity.trip_meta_data[1]
         IN  <<meta.formatted_duration, meta.formatted_distance,
               meta.pickup_address, meta.drop_off_address,
               IF activity.breakdown_details = None THEN "" ELSE meta.map_url>>

\* main.rs:112-131: the five fields taken from trip_meta_data
MetaFields(activity) ==
    IF activity.trip_meta_data = None THEN <<"", "", "", "", "">>
    ELSE LET meta == activity.trip_meta_data[1]
         IN  <<meta.formatted_duration, meta.formatted_distance,
               meta.pickup_address, meta.drop_off_address, meta.map_url>>

\* main.rs:92-132: the record written for one activity
ProjectRow(activity) ==
    Record(<<activity.uuid, activity.type_,
             LocalDate(activity.recognized_at),
             LocalTime(activity.recognized_at),
             activity.activity_title, activity.formatted_total,
             activity.routing.webview_url, TipField(activity)>>
           \o MetaFields(activity))

----
\* The csv::Writer and the streams

\* the stream the writer was built on (main.rs:38-42)
Dest == IF output = "file" THEN file ELSE stdout

\* Writer::write_record: a full buffer is handed to the destination first
BufferAfterWrite(buf, rec) ==
    IF Len(buf) >= BufCapacity THEN <<rec>> ELSE Append(buf, rec)

SpilledByWrite(buf) == IF Len(buf) >= BufCapacity THEN buf ELSE <<>>

\* a final flush that is left out
FlushWriter_Nothing(buf) == <<>>

\* Writer::flush (main.rs:139): what the destination receives
FlushWriter(buf) == buf

\* a writer whose buffer is lost when it is dropped
DropWriter_NoFlush(buf) == <<>>

\* Drop for csv::Writer, run when main returns through a `?`: the buffer is
\* flushed, errors ignored
DropWriter(buf) == buf

\* the destination receives `records`, then println! prints `lines`
Emit(records, lines) ==
    /\ file' = IF output = "file" THEN file \o records ELSE file
    /\ stdout' = (IF output = "stdout" THEN stdout \o records ELSE stdout) \o lines

\* main returns Err(e): locals are dropped, the error is printed on stderr
ReturnErr(e) ==
    /\ Emit(DropWriter(writer), <<>>)
    /\ writer' = <<>>
    /\ stderr' = Append(stderr, Line("Error: " \o e))
    /\ exit' = "failure"
    /\ pc' = "done"

----
\* src/lib.rs: the session file

\* the lines of a readable session file
SessionLines == <<"sid=1", "scid=2">>

RECURSIVE Join(_, _)
Join(lines, sep) ==
    IF lines = <<>> THEN ""
    ELSE IF Len(lines) = 1 THEN lines[1]
    ELSE lines[1] \o sep \o Join(Tail(lines), sep)

\* read_session_from_file: Ok(lines joined with ";") or SessionFileReadError
read_session_from_file(readable) ==
    IF readable THEN [ok |-> TRUE, value |-> Join(SessionLines, ";")]
    ELSE [ok |-> FALSE, value |-> "SessionFileReadError"]

\* read_session_from_config_file: SessionFileNotFound when neither the home
\* nor the config directory holds the file
read_session_from_config_file(found, readable) ==
    IF ~found THEN [ok |-> FALSE, value |-> "SessionFileNotFound"]
    ELSE read_session_from_file(readable)

----
\* src/main.rs: main()

Init ==
    /\ pc = "open"
    /\ output \in {"file", "stdout"}
    /\ \E range \in DateRanges : start_date = range[1] /\ end_date = range[2]
    /\ has_more_data = TRUE
    /\ cursor = None
    /\ writer = <<>>
    /\ file = <<>>
    /\ stdout = <<>>
    /\ stderr = <<>>
    /\ pending = <<>>
    /\ requests = <<>>
    /\ responses = <<>>
    /\ session = None
    /\ exit = "running"

loopVars == <<has_more_data, cursor, pending, requests, responses, session>>
argVars == <<output, start_date, end_date>>
streamVars == <<writer, file, stdout, stderr>>

\* main.rs:38-42, the destination is opened
OpenOutput ==
    /\ pc = "open"
    /\ pc' = "header"
    /\ UNCHANGED <<argVars, loopVars, streamVars, exit>>

\* main.rs:39, File::create(path)? fails
OpenOutputFails ==
    /\ pc = "open"
    /\ output = "file"
    /\ ReturnErr("create")
    /\ UNCHANGED <<argVars, loopVars>>

\* main.rs:44-48
WriteHeader ==
    /\ pc = "header"
    /\ writer' = BufferAfterWrite(writer, Header)
    /\ Emit(SpilledByWrite(writer), <<>>)
    /\ pc' = "session"
    /\ UNCHANGED <<argVars, loopVars, stderr, exit>>

\* a main that reports a session error and goes on without a session
ReadSession_IgnoresError ==
    /\ pc = "session"
    /\ \E given \in BOOLEAN, found \in BOOLEAN, readable \in BOOLEAN :
         LET r == IF given THEN read_session_from_file(readable)
                  ELSE read_session_from_config_file(found, readable)
         IN  /\ session' = Some(IF r.ok THEN r.value ELSE "")
             /\ stderr' = IF r.ok THEN stderr
                          ELSE Append(stderr, Line("Error: " \o r.value))
    /\ pc' = "loop"
    /\ UNCHANGED <<argVars, has_more_data, cursor, pending, requests, responses,
                   writer, file, stdout, exit>>

\* main.rs:50-62
ReadSession ==
    /\ pc = "session"
    /\ \E given \in BOOLEAN, found \in BOOLEAN, readable \in BOOLEAN :
         LET r == IF given THEN read_session_from_file(readable)
                  ELSE read_session_from_config_file(found, readable)
         IN  IF r.ok
             THEN /\ session' = Some(r.value)
                  /\ pc' = "loop"
                  /\ UNCHANGED <<streamVars, exit>>
             ELSE /\ ReturnErr(r.value)
                  /\ UNCHANGED session
    /\ UNCHANGED <<argVars, has_more_data, cursor, pending, requests, responses>>

\* a request builder that puts the earlier date first
DateBefore(d, e) ==
    \/ d.year < e.year
    \/ d.year = e.year /\ d.month < e.month
    \/ d.year = e.year /\ d.month = e.month /\ d.day < e.day

BuildRequest_Sorted(start, end, cur) ==
    [start_date_iso |-> IF DateBefore(end, start) THEN end ELSE start,
     end_date_iso |-> IF DateBefore(end, start) THEN start ELSE end,
     pagination_option |->
        IF cur = None THEN None ELSE Some([cursor |-> cur[1]])]

\* main.rs:68-72, the request built from the arguments and the cursor
BuildRequest(start, end, cur) ==
    [start_date_iso |-> start, end_date_iso |-> end,
     pagination_option |->
        IF cur = None THEN None ELSE Some([cursor |-> cur[1]])]

\* main.rs:71, what cursor.take() leaves in the variable
CursorAfterTake(cur) == None

\* main.rs:67-77, the loop is entered and the request goes out
SendRequest ==
    /\ pc = "loop"
    /\ has_more_data
    /\ Len(requests) < MaxReq
    /\ requests' = Append(requests,
          [cookie |-> session[1],
           body |-> SerializeRequest(BuildRequest(start_date, end_date, cursor))])
    /\ cursor' = CursorAfterTake(cursor)
    /\ pc' = "sent"
    /\ UNCHANGED <<argVars, has_more_data, pending, responses, session,
                   streamVars, exit>>

\* main.rs:77, send()? fails: no response arrives
SendFails ==
    /\ pc = "sent"
    /\ ReturnErr("transport")
    /\ UNCHANGED <<argVars, loopVars>>

\* main.rs:79, res.json()? fails
ReceiveUndecodable ==
    /\ pc = "sent"
    /\ \E res \in HttpResponses :
         /\ ~Decodes(res.body)
         /\ responses' = Append(responses, res)
    /\ ReturnErr("decode")
    /\ UNCHANGED <<argVars, has_more_data, cursor, pending, requests, session>>

\* a Failure arm that leaves the flag alone
ContinueAfterFailure_Retry == TRUE

\* main.rs:84
ContinueAfterFailure == FALSE

\* main.rs:82-85
ReceiveFailure ==
    /\ pc = "sent"
    /\ \E res \in HttpResponses :
         /\ Decodes(res.body)
         /\ res.body.tag = "failure"
         /\ responses' = Append(responses, res)
         /\ Emit(<<>>, <<Line("Error: " \o res.body.message)>>)
    /\ has_more_data' = ContinueAfterFailure
    /\ pc' = "loop"
    /\ UNCHANGED <<argVars, cursor, pending, requests, session, writer,
                   stderr, exit>>

\* a loop that never looks at hasMoreData
ContinueAfterSuccess_Always(body) == TRUE

\* a loop that stops when no cursor came back
ContinueAfterSuccess_NeedsCursor(body) ==
    body.hasMoreData /\ body.nextCursor # None

\* main.rs:87
ContinueAfterSuccess(body) == body.hasMoreData

\* a loop that forgets the cursor it was given
CursorAfterSuccess_Dropped(body) == None

\* main.rs:88
CursorAfterSuccess(body) == body.nextCursor

\* a loop that walks the activities from the end
RECURSIVE Reverse(_)
Reverse(seq) == IF seq = <<>> THEN <<>> ELSE Append(Reverse(Tail(seq)), Head(seq))

ActivitiesOf_Reversed(body) ==
    IF body.activities = None THEN <<>> ELSE Reverse(body.activities[1])

\* main.rs:90, the activities the loop at main.rs:91 runs over
ActivitiesOf(body) ==
    IF body.activities = None THEN <<>> ELSE body.activities[1]

\* a loop that goes back for the next page with the rows still to write
PcAfterSuccess_Prefetch(activities) == "loop"

\* main.rs:90-91, 137: the for loop runs before the while loop turns
PcAfterSuccess(activities) == IF activities = <<>> THEN "loop" ELSE "rows"

\* main.rs:86-90
ReceiveSuccess ==
    /\ pc = "sent"
    /\ \E res \in HttpResponses :
         /\ Decodes(res.body)
         /\ res.body.tag = "success"
         /\ responses' = Append(responses, res)
         /\ has_more_data' = ContinueAfterSuccess(res.body)
         /\ cursor' = CursorAfterSuccess(res.body)
         /\ pending' = ActivitiesOf(res.body)
         /\ pc' = PcAfterSuccess(ActivitiesOf(res.body))
    /\ UNCHANGED <<argVars, requests, session, streamVars, exit>>

\* main.rs:91-133, one turn of the for loop
WriteRow ==
    /\ pc = "rows"
    /\ writer' = BufferAfterWrite(writer, ProjectRow(Head(pending)))
    /\ Emit(SpilledByWrite(writer), <<>>)
    /\ pending' = Tail(pending)
    /\ pc' = IF Tail(pending) = <<>> THEN "loop" ELSE "rows"
    /\ UNCHANGED <<argVars, has_more_data, cursor, requests, responses,
                   session, stderr, exit>>

\* main.rs:141, the status of a run whose main returns Ok(())
ExitStatusOk == "success"

\* main.rs:67 (the loop ends), 139-141
Finish ==
    /\ pc = "loop"
    /\ ~has_more_data
    /\ Emit(FlushWriter(writer), <<>>)
    /\ writer' = <<>>
    /\ exit' = ExitStatusOk
    /\ pc' = "done"
    /\ UNCHANGED <<argVars, loopVars, stderr>>

Next ==
    \/ OpenOutput
    \/ OpenOutputFails
    \/ WriteHeader
    \/ ReadSession
    \/ SendRequest
    \/ SendFails
    \/ ReceiveUndecodable
    \/ ReceiveFailure
    \/ ReceiveSuccess
    \/ WriteRow
    \/ Finish

Spec == Init /\ [][Next]_vars

----
\* The row projection on its own: one page of one activity, drawn from every
\* combination of the optional sub-records, has just been received

TripMetaSparse ==
    [formatted_duration |-> "", formatted_distance |-> "5 km",
     pickup_address |-> "", drop_off_address |-> "C St", map_url |-> ""]

ActivityPool ==
    { Activity("abc", at, tip, meta) :
        at \in (-MaxSeconds)..MaxSeconds,
        tip \in { None, Some([formatted_tip |-> "$1.00"]),
                  Some([formatted_tip |-> ""]) },
        meta \in { None, Some(TripMeta), Some(TripMetaSparse) } }

\* main.rs:86-91, the state in which the for loop starts on such a page
ProjInit ==
    \E a \in ActivityPool :
        LET body == Body(TRUE, "success", "", Some(<<a>>), FALSE, None)
            range == CHOOSE r \in DateRanges : r[1].day < r[2].day
        IN  /\ pc = "rows"
            /\ output = "file"
            /\ start_date = range[1]
            /\ end_date = range[2]
            /\ has_more_data = ContinueAfterSuccess(body)
            /\ cursor = CursorAfterSuccess(body)
            /\ writer = <<Header>>
            /\ file = <<>>
            /\ stdout = <<>>
            /\ stderr = <<>>
            /\ pending = ActivitiesOf(body)
            /\ session = Some(Join(SessionLines, ";"))
            /\ requests = <<[cookie |-> session[1],
                             body |-> SerializeRequest(
                                 BuildRequest(start_date, end_date, None))]>>
            /\ responses = <<[status |-> 200, body |-> body]>>
            /\ exit = "running"

ProjNext ==
    \/ WriteRow
    \/ Finish

ProjSpec == ProjInit /\ [][ProjNext]_vars

\* The program's own steps always go on; whether the service answers is the
\* service's business, and no fairness is assumed of it.
LiveSpec ==
    /\ Spec
    /\ WF_vars(OpenOutput)
    /\ WF_vars(WriteHeader)
    /\ WF_vars(ReadSession)
    /\ WF_vars(SendRequest)
    /\ WF_vars(WriteRow)
    /\ WF_vars(Finish)

----
\* Vocabulary of the properties

\* the keys of a JSON object, and the value at a key
Keys(obj) == { obj.v[i][1] : i \in 1..Len(obj.v) }
Get(obj, key) == obj.v[CHOOSE i \in 1..Len(obj.v) : obj.v[i][1] = key][2]

\* the cursor request n carries on the wire, read back from its body
RequestCursor(n) ==
    LET body == requests[n].body
    IN  IF "paginationOption" \notin Keys(body) THEN None
        ELSE LET po == Get(body, "paginationOption")
             IN  IF po.t = "obj" /\ "cursor" \in Keys(po)
                 THEN Some(Get(po, "cursor").v[1])
                 ELSE None

\* response n is a well-formed Success / Failure response
IsSuccess(res) == Decodes(res.body) /\ res.body.tag = "success"
IsFailure(res) == Decodes(res.body) /\ res.body.tag = "failure"

\* the rows the activities of one response stand for
RowsOfResponse(res) ==
    IF IsSuccess(res) /\ res.body.activities # None
    THEN [i \in 1..Len(res.body.activities[1]) |->
             ProjectRow(res.body.activities[1][i])]
    ELSE <<>>

\* the rows of a sequence of responses, pages in order
RECURSIVE RowsOfResponses(_)
RowsOfResponses(rs) ==
    IF rs = <<>> THEN <<>>
    ELSE RowsOfResponse(Head(rs)) \o RowsOfResponses(Tail(rs))

\* the CSV records of a stream, in order
RECURSIVE CsvRecords(_)
CsvRecords(stream) ==
    IF stream = <<>> THEN <<>>
    ELSE IF Head(stream).kind = "record"
         THEN <<Head(stream)>> \o CsvRecords(Tail(stream))
         ELSE CsvRecords(Tail(stream))

\* every record handed to the csv::Writer so far, in order
Written == CsvRecords(Dest) \o writer

Range(seq) == { seq[i] : i \in 1..Len(seq) }

Last(seq) == seq[Len(seq)]

----
\* C1: the first request carries no cursor; the cursor of request n+1 is the
\* nextCursor of response n, or absent when response n had none; so a cursor of
\* an earlier response is never sent, and a cursor value is sent on two
\* requests only when the service returned it again.
C1_CursorPropagation ==
    /\ Len(requests) >= 1 => RequestCursor(1) = None
    /\ \A n \in 1..(Len(requests) - 1) :
          RequestCursor(n + 1) = responses[n].body.nextCursor
    /\ \A i, j \in 1..Len(requests) :
          i < j /\ RequestCursor(j) # None /\ RequestCursor(i) = RequestCursor(j)
             => responses[j - 1].body.nextCursor = RequestCursor(j)

\* three requests: response 1 gave c1, response 2 gave no cursor
C1_Witness ==
    /\ Len(requests) = 3
    /\ responses[1].body.nextCursor = Some("c1")
    /\ responses[2].body.nextCursor = None
    /\ RequestCursor(2) = Some("c1")

\* response N is the first Success without more data, after N-1 with more
LastPage(N) ==
    /\ N \in 1..Len(responses)
    /\ \A i \in 1..(N - 1) : IsSuccess(responses[i]) /\ responses[i].body.hasMoreData
    /\ IsSuccess(responses[N]) /\ ~responses[N].body.hasMoreData

\* what must hold in every state once the last page has arrived
C2_Safety ==
    \A N \in 1..Len(responses) :
        LastPage(N) => /\ Len(requests) = N
                       /\ Len(responses) = N
                       /\ pc \in {"rows", "loop", "done"}
                       /\ exit = IF pc = "done" THEN "success" ELSE "running"

\* C2: when responses 1..N-1 are Success with hasMoreData = true and response
\* N is the first Success with hasMoreData = false, exactly N requests are
\* issued and the run then ends with normal completion.
C2_PaginationTermination ==
    /\ []C2_Safety
    /\ \A N \in 1..MaxReq :
          LastPage(N) ~> (pc = "done" /\ exit = "success" /\ Len(requests) = N)

\* a run of three pages that has ended
C2_Witness == LastPage(3) /\ pc = "done" /\ Len(requests) = 3

\* the cursor the loop holds when it builds request n
HeldCursor(n) == IF n = 1 THEN None ELSE responses[n - 1].body.nextCursor

\* C3: a request sent while no cursor is held has no paginationOption key in
\* its body; a request sent while cursor c is held has
\* paginationOption = {cursor: c}.
C3_RequestEncoding ==
    \A n \in 1..Len(requests) :
        IF HeldCursor(n) = None
        THEN "paginationOption" \notin Keys(requests[n].body)
        ELSE /\ "paginationOption" \in Keys(requests[n].body)
             /\ Get(requests[n].body, "paginationOption")
                   = JObj(<< <<"cursor", JStr(HeldCursor(n)[1])>> >>)

\* C4: when k >= 0 Success pages are followed by a Failure response, the
\* destination ends up holding the header row followed by every row of those
\* pages, and the failure message has been reported.
C4_StreamingOnFailure ==
    pc = "done" /\ responses # <<>> /\ IsFailure(Last(responses))
       => /\ CsvRecords(Dest) = <<Header>> \o RowsOfResponses(responses)
          /\ Line("Error: " \o Last(responses).body.message)
                \in Range(stdout) \cup Range(stderr)

\* two pages of two rows each, then the failure
C4_Witness ==
    /\ pc = "done"
    /\ Len(responses) = 3
    /\ IsFailure(responses[3])
    /\ Len(RowsOfResponses(responses)) = 4

\* C5: a run that ends because a well-formed Failure response was received
\* does not end with the success status.
C5_FailureExitStatus ==
    pc = "done" /\ responses # <<>> /\ IsFailure(Last(responses))
       => exit # "success"

\* the latest response is a Failure
AfterFailure == responses # <<>> /\ IsFailure(Last(responses))

\* C6: after a Failure response no further request is issued, no further row
\* is written and the loop is left, whatever was held before.
C6_FailureTerminal ==
    /\ [](AfterFailure => ~has_more_data /\ pc \in {"loop", "done"})
    /\ [][AfterFailure => /\ requests' = requests
                          /\ responses' = responses
                          /\ Written' = Written
                          /\ pc' = "done"]_vars

\* the run has ended after a Failure that followed a page carrying a cursor
C6_Witness ==
    /\ AfterFailure
    /\ pc = "done"
    /\ Len(responses) = 2
    /\ responses[1].body.nextCursor = Some("c2")
    /\ Len(requests) = 2

\* the rows of the current page still to be written
PendingRows == [i \in 1..Len(pending) |-> ProjectRow(pending[i])]

\* a Success response whose activities list is absent
NoActivities(res) == IsSuccess(res) /\ res.body.activities = None

\* C7: what has been written to the sink is the header, once and first, then
\* one row per activity of the Success responses processed so far, pages in
\* order and records in order; a Success response without activities adds no
\* row and the loop goes on as its hasMoreData says.
C7_OutputOrder ==
    /\ Written # <<>> =>
          Written \o PendingRows = <<Header>> \o RowsOfResponses(responses)
    /\ Written = <<>> => requests = <<>> /\ pc \in {"open", "header", "done"}
    /\ responses # <<>> /\ NoActivities(Last(responses))
          /\ Len(requests) = Len(responses)
          => /\ pc \in {"loop", "done"}
             /\ has_more_data = Last(responses).body.hasMoreData
             /\ pc = "done" => exit = "success"

\* rows, then a page without activities, then rows again, all written
C7_Witness ==
    /\ Len(responses) = 3
    /\ Len(RowsOfResponse(responses[1])) = 2
    /\ NoActivities(responses[2])
    /\ Len(RowsOfResponse(responses[3])) = 2
    /\ Len(Written) = 5
    /\ pc = "done"

\* a Success response that asks for more and gives no cursor
MissingCursor(res) ==
    IsSuccess(res) /\ res.body.hasMoreData /\ res.body.nextCursor = None

\* what must hold in every state after such a response
C8_Safety ==
    \A n \in 1..Len(responses) :
        MissingCursor(responses[n]) =>
            /\ Len(requests) = n =>
                  /\ pc \in {"rows", "loop"}
                  /\ exit = "running"
                  /\ has_more_data
                  /\ cursor = None
            /\ Len(requests) > n => RequestCursor(n + 1) = None

\* C8: after a Success response with hasMoreData = true and no nextCursor the
\* run neither fails nor stops: one more request is issued, and it carries no
\* cursor.
C8_MissingCursor ==
    /\ []C8_Safety
    /\ \A n \in 1..(MaxReq - 1) :
          (Len(responses) = n /\ MissingCursor(responses[n]))
             ~> (Len(requests) = n + 1 /\ RequestCursor(n + 1) = None)

\* request 2 carried c1, response 2 had no cursor, request 3 went out
C8_Witness ==
    /\ Len(requests) = 3
    /\ RequestCursor(2) = Some("c1")
    /\ MissingCursor(responses[2])
    /\ RequestCursor(3) = None

\* C9: a response with a non-2xx status aborts the run at once with an error:
\* its body is not interpreted and no request follows it.
C9_Non2xxFatal ==
    \A n \in 1..Len(responses) :
        responses[n].status \notin 200..299 =>
            /\ pc = "done"
            /\ exit = "failure"
            /\ Len(requests) = n
            /\ Written \in {<<>>, <<Header>> \o RowsOfResponses(SubSeq(responses, 1, n - 1))}

\* C10: when the loop has ended, normally, by a Failure response, or by a
\* transport or decode error on request n, the destination holds the header
\* and every row of pages 1..n-1, nothing is left in the writer, and the
\* failing request was the last one.
C10_Finalization ==
    pc = "done" /\ requests # <<>> =>
        /\ CsvRecords(Dest) = <<Header>> \o RowsOfResponses(responses)
        /\ writer = <<>>
        /\ exit = "failure" =>
              \/ Len(responses) = Len(requests) - 1
              \/ Len(responses) = Len(requests) /\ ~Decodes(Last(responses).body)

\* a transport error on request 2 after a page of two rows
C10_Witness ==
    /\ pc = "done"
    /\ exit = "failure"
    /\ Len(requests) = 2
    /\ Len(responses) = 1
    /\ Len(CsvRecords(Dest)) = 3


\* the session supplier has failed: its error is what main reported
SessionErrors == {"SessionFileNotFound", "SessionFileReadError"}

SessionFailed == \E e \in SessionErrors : Line("Error: " \o e) \in Range(stderr)

\* C11: when the session supplier fails (no session file, or an unreadable
\* one) the run ends with a fatal error and the failure status, and no request
\* is issued in that run; a request is only ever sent with a session read.
C11_ConfigErrorBeforeNetwork ==
    /\ SessionFailed => /\ pc = "done"
                        /\ exit = "failure"
                        /\ requests = <<>>
                        /\ responses = <<>>
                        /\ session = None
    /\ requests # <<>> => session # None /\ ~SessionFailed

\* the session file was not found, and the run is over
C11_Witness ==
    /\ Line("Error: SessionFileNotFound") \in Range(stderr)
    /\ pc = "done"
    /\ requests = <<>>


\* the place of a column in the header, and the activity of the first page
Col(name) == CHOOSE i \in 1..Len(Header.data) : Header.data[i] = name

FirstActivity == responses[1].body.activities[1][1]

\* C12: in the row of an activity, Tip is "" without breakdownDetails and the
\* verbatim formattedTip with it; Duration, Distance, Pickup, DropOff and
\* MapUrl are all "" without tripMetaData and all the verbatim values of that
\* sub-record with it; the projection never fails and yields 13 fields in the
\* header's order.
C12_FieldDefaulting ==
    /\ pc = "rows" => ENABLED WriteRow
    /\ Len(Written) = 2 =>
          LET a == FirstActivity
              row == Written[2].data
              tip == a.breakdown_details
              meta == a.trip_meta_data
          IN  /\ Written[2].kind = "record"
              /\ Len(row) = 13
              /\ Len(row) = Len(Header.data)
              /\ row[Col("UUID")] = a.uuid
              /\ row[Col("Type")] = a.type_
              /\ row[Col("Title")] = a.activity_title
              /\ row[Col("Total")] = a.formatted_total
              /\ row[Col("Url")] = a.routing.webview_url
              /\ row[Col("Tip")] = IF tip = None THEN "" ELSE tip[1].formatted_tip
              /\ meta = None =>
                    \A c \in {"Duration", "Distance", "Pickup", "DropOff", "MapUrl"} :
                        row[Col(c)] = ""
              /\ meta # None =>
                    /\ row[Col("Duration")] = meta[1].formatted_duration
                    /\ row[Col("Distance")] = meta[1].formatted_distance
                    /\ row[Col("Pickup")] = meta[1].pickup_address
                    /\ row[Col("DropOff")] = meta[1].drop_off_address
                    /\ row[Col("MapUrl")] = meta[1].map_url

\* a row written for an activity with tripMetaData and without breakdownDetails
C12_Witness ==
    /\ Len(Written) = 2
    /\ FirstActivity.breakdown_details = None
    /\ FirstActivity.trip_meta_data = Some(TripMeta)
    /\ Written[2].data[Col("Tip")] = ""
    /\ Written[2].data[Col("MapUrl")] = "https://m"


\* C13: once the rows of page n are written, and while request n+1 is built
\* and outstanding, every row of pages 1..n (and the header) has reached the
\* destination stream.
C13_PerPageFlush ==
    /\ responses # <<>>
    /\ \/ pc = "loop" /\ has_more_data
       \/ pc = "sent"
    => CsvRecords(Dest) = <<Header>> \o RowsOfResponses(responses)

\* C14: for either destination the destination stream receives CSV records
\* only; the message of a Failure response goes to another channel and never
\* appears in the destination stream.
C14_DiagnosticOutOfRows ==
    /\ \A i \in 1..Len(Dest) : Dest[i].kind = "record"
    /\ \A i \in 1..Len(responses) :
          IsFailure(responses[i]) =>
              Line("Error: " \o responses[i].body.message) \notin Range(Dest)

\* C15: when the session supplier fails, nothing has been written by the
\* sink: no header row has been handed to the writer or reached the
\* destination.
C15_SessionFailureWritesNothing ==
    SessionFailed => Written = <<>> /\ Dest = <<>>


\* a request has been sent and its response has not arrived
Outstanding == pc = "sent"

\* C16: at most one request is outstanding at any time; request n+1 is issued
\* only when response n has arrived and all of its rows are written; no row
\* is written while a request is outstanding.
C16_StrictSequencing ==
    /\ [](/\ Len(requests) - Len(responses) \in {0, 1}
          /\ Outstanding =>
                /\ Len(requests) = Len(responses) + 1
                /\ pending = <<>>
                /\ Written = <<Header>> \o RowsOfResponses(responses)
          /\ pc = "rows" => Len(requests) = Len(responses))
    /\ [][/\ requests' # requests =>
                /\ ~Outstanding
                /\ Len(requests') = Len(requests) + 1
                /\ Len(responses) = Len(requests)
                /\ pending = <<>>
                /\ Written = <<Header>> \o RowsOfResponses(responses)
          /\ Written' # Written => ~Outstanding /\ ~Outstanding']_vars

\* request 2 is outstanding and the two rows of page 1 are written
C16_Witness ==
    /\ Outstanding
    /\ Len(requests) = 2
    /\ Len(RowsOfResponse(responses[1])) = 2
    /\ Len(Written) = 3


\* the YYYY-MM-DD text of the dates a caller can supply
IsoText(date) ==
    IF date = Date(2024, 1, 1) THEN "2024-01-01"
    ELSE IF date = Date(2024, 1, 31) THEN "2024-01-31"
    ELSE "other"

\* C17: every request carries the caller's start and end dates as they were
\* given, whatever the responses and cursors were; the dates never change
\* during a run, and the first request is issued whether or not the start
\* is before the end.
C17_DateRangeFrame ==
    /\ [](/\ \A n \in 1..Len(requests) :
                /\ Get(requests[n].body, "startDateIso") = JStr(IsoText(start_date))
                /\ Get(requests[n].body, "endDateIso") = JStr(IsoText(end_date))
          /\ pc = "loop" /\ requests = <<>> => ENABLED SendRequest)
    /\ [][start_date' = start_date /\ end_date' = end_date]_vars

\* three requests of a run whose start date is after its end date
C17_Witness ==
    /\ DateBefore(end_date, start_date)
    /\ Len(requests) = 3
    /\ responses[1].body.nextCursor = Some("c1")
    /\ Get(requests[3].body, "startDateIso") = JStr("2024-01-31")
    /\ Get(requests[3].body, "endDateIso") = JStr("2024-01-01")


\* a body that does not decode, read off the body itself: not of the expected
\* shape, an unrecognized tag, or an activity (anywhere in the list) whose
\* timestamp is out of range
Undecodable(body) ==
    \/ ~body.wellFormed
    \/ body.tag \notin {"success", "failure"}
    \/ /\ body.tag = "success"
       /\ body.activities # None
       /\ \E i \in 1..Len(body.activities[1]) :
             \/ body.activities[1][i].recognized_at > MaxSeconds
             \/ body.activities[1][i].recognized_at < -MaxSeconds

\* C18: when response n does not decode, none of its rows is written, its
\* cursor and hasMoreData are not applied, and the run aborts with no further
\* request; rows are written only for responses that decode as a whole.
C18_PageAtomicity ==
    \A n \in 1..Len(responses) :
        Undecodable(responses[n].body) =>
            /\ n = Len(responses)
            /\ Len(requests) = n
            /\ pc = "done"
            /\ exit = "failure"
            /\ pending = <<>>
            /\ Written = <<Header>> \o RowsOfResponses(SubSeq(responses, 1, n - 1))
            /\ CsvRecords(Dest) = Written
            /\ has_more_data
            /\ cursor = None

\* page 2 has a good activity first and a bad timestamp second, and says
\* there is no more data and gives a cursor
C18_Witness ==
    /\ Len(responses) = 2
    /\ responses[2].body.activities = Some(<<a2, a3>>)
    /\ ~responses[2].body.hasMoreData
    /\ responses[2].body.nextCursor = Some("c2")
    /\ Len(RowsOfResponse(responses[1])) = 2
    /\ Len(Written) = 3
    /\ pc = "done"

====
